---- MODULE Spec2Model ----
(***************************************************************************)
(* Interactive history search (src/command/client/search.rs).              *)
(*                                                                         *)
(* The foreground task select_history is modelled at its await points:     *)
(* every store call is put in flight, answered by the store, and only then *)
(* is the caller resumed.  The input-reading task of Events runs beside it *)
(* and fills the event channel.  Text is a sequence of one-character       *)
(* strings; Option<T> is the empty sequence (None) or <<x>> (Some(x)).     *)
(***************************************************************************)
EXTENDS Integers, Sequences, FiniteSets, TLC

\* ------------------------------------------------------------------ bounds
MaxStore == 2
MaxInput == 2
MaxPending == 2
MaxTokens == 1
MaxSelected == 2
UsizeBits == 16

\* ------------------------------------------------------------ Option<T>
None == <<>>
Some(x) == <<x>>
unwrap(o) == o[1]
unwrap_or(o, d) == IF o = None THEN d ELSE o[1]

\* ------------------------------------------------------------------ text
Chars == {"a", " ", "\t"}
ControlChars == {"\t", "\n"}
EmptyText == <<>>

RECURSIVE SplitAcc(_, _, _, _)
SplitAcc(s, sep, cur, acc) ==
    IF s = <<>> THEN Append(acc, cur)
    ELSE IF Head(s) = sep THEN SplitAcc(Tail(s), sep, <<>>, Append(acc, cur))
    ELSE SplitAcc(Tail(s), sep, Append(cur, Head(s)), acc)

\* str::split(' '): the pieces between separators; "" splits into one empty piece
split(s, sep) == SplitAcc(s, sep, <<>>, <<>>)

RECURSIVE join(_, _)
\* [String]::join(" ")
join(words, sep) ==
    IF words = <<>> THEN <<>>
    ELSE IF Len(words) = 1 THEN words[1]
    ELSE words[1] \o <<sep>> \o join(Tail(words), sep)

\* String::pop: removes the last character, nothing on an empty string
pop(s) == IF s = <<>> THEN s ELSE SubSeq(s, 1, Len(s) - 1)

\* ------------------------------------------------------------------ keys
Key(t, c) == [t |-> t, c |-> c]
DigitChars == <<"0", "1", "2", "3", "4", "5", "6", "7", "8", "9">>
\* char::to_digit(10)
to_digit(c) ==
    IF \E i \in 1..Len(DigitChars) : DigitChars[i] = c
    THEN Some((CHOOSE i \in 1..Len(DigitChars) : DigitChars[i] = c) - 1)
    ELSE None

Keys ==
    {Key("Esc", ""), Key("Backspace", ""), Key("Down", ""), Key("Up", ""), Key("Left", "")}
    \cup {Key("Ctrl", c) : c \in {"c", "d", "g", "u", "n", "p", "x"}}
    \cup {Key("Char", c) : c \in Chars \cup {"\n"}}
    \cup {Key("Alt", DigitChars[i]) : i \in 1..Len(DigitChars)}
    \cup {Key("Alt", "DEL"), Key("Alt", "x")}

NoEvent == [e |-> "None", key |-> Key("", "")]
Tick == [e |-> "Tick", key |-> Key("", "")]
Input(k) == [e |-> "Input", key |-> k]
Events == {Tick} \cup {Input(k) : k \in Keys}

\* "DEL" stands for the character U+007F
\* the arm of key_handler's match that takes the key, in the order of the arms
KeyArm(k) ==
    IF k.t = "Esc" \/ (k.t = "Ctrl" /\ k.c \in {"c", "d", "g"}) THEN "cancel"
    ELSE IF k.t = "Char" /\ k.c = "\n" THEN "enter"
    ELSE IF k.t = "Alt" /\ \E i \in 2..10 : DigitChars[i] = k.c THEN "alt_digit"
    ELSE IF k.t = "Char" THEN "char"
    ELSE IF k.t = "Backspace" THEN "backspace"
    ELSE IF k.t = "Alt" /\ k.c = "DEL" THEN "alt_backspace"
    ELSE IF k.t = "Ctrl" /\ k.c = "u" THEN "ctrl_u"
    ELSE IF k.t = "Down" \/ (k.t = "Ctrl" /\ k.c = "n") THEN "down"
    ELSE IF k.t = "Up" \/ (k.t = "Ctrl" /\ k.c = "p") THEN "up"
    ELSE "other"

\* ------------------------------------------------------------- the store
\* The store is a collaborator of this file (atuin_client::database): its
\* records are kept most recent first, and a call either fails or answers.
Commands == {<<"a">>, <<"a", " ", "a">>}
HistoryRecord(c) == [command |-> c]
SearchModes == {"Prefix", "FullText"}

RECURSIVE SeqsUpTo(_, _)
SeqsUpTo(S, n) ==
    IF n = 0 THEN {<<>>}
    ELSE LET shorter == SeqsUpTo(S, n - 1)
         IN shorter \cup {Append(s, x) : s \in {t \in shorter : Len(t) = n - 1}, x \in S}

Stores == SeqsUpTo({HistoryRecord(c) : c \in Commands}, MaxStore)

IsPrefix(q, t) == Len(q) <= Len(t) /\ SubSeq(t, 1, Len(q)) = q
Contains(q, t) == \E i \in 0..(Len(t) - Len(q)) : SubSeq(t, i + 1, i + Len(q)) = q
Matches(mode, q, t) == IF mode = "Prefix" THEN IsPrefix(q, t) ELSE Contains(q, t)

Truncate(s, limit) ==
    IF limit = None \/ Len(s) <= unwrap(limit) THEN s ELSE SubSeq(s, 1, unwrap(limit))

\* the first occurrence of every command, in order
Unique(s) ==
    LET first(i) == \A j \in 1..(i - 1) : s[j].command # s[i].command
        keep == {i \in 1..Len(s) : first(i)}
        nth(n) == CHOOSE i \in keep : Cardinality({j \in keep : j < i}) = n - 1
    IN [n \in 1..Cardinality(keep) |-> s[nth(n)]]

DbList(store, limit, unique) == Truncate(IF unique THEN Unique(store) ELSE store, limit)
DbSearch(store, limit, mode, q) ==
    Truncate(SelectSeq(store, LAMBDA h : Matches(mode, q, h.command)), limit)
DbHistoryCount(store) == Len(store)

ListCall(limit, unique) ==
    [op |-> "list", limit |-> limit, unique |-> unique, mode |-> "", query |-> EmptyText,
     reply |-> "Pending"]
SearchCall(limit, mode, q) ==
    [op |-> "search", limit |-> limit, unique |-> FALSE, mode |-> mode, query |-> q,
     reply |-> "Pending"]
CountCall ==
    [op |-> "count", limit |-> None, unique |-> FALSE, mode |-> "", query |-> EmptyText,
     reply |-> "Pending"]

StoreAnswer(store, call) ==
    IF call.op = "list" THEN DbList(store, call.limit, call.unique)
    ELSE DbSearch(store, call.limit, call.mode, call.query)

\* ----------------------------------------------------------------- state
VARIABLES
    pc,              \* where select_history stands
    db,              \* the store's records
    search_mode,     \* settings.search_mode
    overflow_checks, \* whether the build checks integer overflow
    input,           \* app.input
    results,         \* app.results
    selected,        \* app.results_state.selected()
    output,          \* what select_history returned, once it has
    terminal,        \* the raw-mode / alternate-screen / mouse-capture guard
    pending,         \* events sent to the channel and not yet received
    event,           \* the event events.next() returned in this iteration
    inflight,        \* store calls issued and not yet resumed from
    history_count,   \* the count fetched for the frame
    frame,           \* the layout choice of one frame: style, viewport, layout
    batch            \* one run of the batch filter: arguments, records, output

\* the state of the interactive session
session ==
    <<pc, db, search_mode, overflow_checks, input, results, selected, output,
      terminal, pending, event, inflight, history_count>>

vars == <<session, frame, batch>>

\* the layout of a frame depends on the style and the viewport alone, and the
\* batch filter runs instead of the session: both have their own specification
NoFrame == [style |-> "", size |-> None, layout |-> ""]
NoBatch == [status |-> ""]

Running == {"init_query", "loop", "count", "next", "requery", "draw"}
Terminated == {"done", "error", "panicked"}

\* --------------------------------------------------------------- helpers
QueryLimit == 200

\* query_results searching whatever the input is
query_results_call_search_only(inp, mode) == SearchCall(Some(QueryLimit), mode, inp)

\* the store call query_results makes for the input
query_results_call(inp, mode) ==
    IF inp = EmptyText THEN ListCall(Some(QueryLimit), TRUE)
    ELSE SearchCall(Some(QueryLimit), mode, inp)

\* query_results without the empty case
query_results_select_always(res) == Some(0)

\* the selection query_results leaves for the new results
query_results_select(res) == IF res = <<>> THEN None ELSE Some(0)

\* Vec::get
get(v, i) == IF i < Len(v) THEN Some(v[i + 1]) ELSE None

\* usize subtraction: a panic (None) when overflow is checked, else wrapping
usize_sub(a, b) ==
    IF a >= b THEN Some(a - b)
    ELSE IF overflow_checks THEN None
    ELSE Some(a - b + 2 ^ UsizeBits)

\* the cancel arm returning the typed text as a submit would
cancel_output_typed == input

\* the text the cancel arm returns
cancel_output == EmptyText

\* the Enter arm taking the first row whatever is selected
enter_output_first(inp, res, sel) ==
    LET h == get(res, 0)
    IN IF h = None THEN inp ELSE unwrap(h).command

\* the text the Enter arm returns
enter_output(inp, res, sel) ==
    LET i == unwrap_or(sel, 0)
        h == get(res, i)
    IN IF h = None THEN inp ELSE unwrap(h).command

\* the Alt-digit arm counting the selected row as offset 1
alt_digit_output_off_by_one(c, inp, res, sel) ==
    LET d == to_digit(c)
    IN IF d = None THEN None
       ELSE IF sel = None THEN None
       ELSE LET h == get(res, unwrap(sel) + unwrap(d) - 1)
            IN Some(IF h = None THEN inp ELSE unwrap(h).command)

\* what the Alt-digit arm returns: None where a `?` leaves the handler
alt_digit_output(c, inp, res, sel) ==
    LET d == to_digit(c)
    IN IF d = None THEN None
       ELSE IF sel = None THEN None
       ELSE LET h == get(res, unwrap(sel) + unwrap(d))
            IN Some(IF h = None THEN inp ELSE unwrap(h).command)

\* the input the Alt-Backspace arm leaves
\* (None where the arm returns before any requery)
alt_backspace_input(inp) ==
    LET words == split(inp, " ")
    IN IF Len(words) = 0 THEN None
       ELSE IF Len(words) = 1 THEN Some(EmptyText)
       ELSE Some(join(SubSeq(words, 1, Len(words) - 1), " "))

\* the Down arm moving away from index 0
down_index_away(sel) ==
    IF sel = None THEN 0
    ELSE unwrap(sel) + 1

\* the index the Down arm selects
down_index(sel) ==
    IF sel = None THEN 0
    ELSE IF unwrap(sel) = 0 THEN 0
    ELSE unwrap(sel) - 1

\* the index the Up arm selects; None when computing it panics
up_index(sel, len) ==
    IF sel = None THEN Some(0)
    ELSE LET last == usize_sub(len, 1)
         IN IF last = None THEN None
            ELSE IF unwrap(sel) >= unwrap(last) THEN last
            ELSE Some(unwrap(sel) + 1)

\* a guard that is forgotten instead of dropped
drop_terminal_leak(t) == t

\* the guard's Drop when select_history is left, by return or by unwinding
drop_terminal(t) == IF t = "held" THEN "released" ELSE t

\* an edit arm that starts query_results and does not wait for it
await_query_results_detached == "draw"

\* where an edit arm waits for query_results
await_query_results == "requery"

\* ------------------------------------------------------------------ Init
Tokens == {<<"a">>, <<"\t">>}
QueryArgs == SeqsUpTo(Tokens, MaxTokens)

Init ==
    /\ pc = "start"
    /\ db \in Stores
    /\ search_mode \in SearchModes
    /\ overflow_checks \in BOOLEAN
    /\ input = EmptyText
    /\ results = <<>>
    /\ selected = None
    /\ output = None
    /\ terminal = "none"
    /\ pending = 0
    /\ event = NoEvent
    /\ inflight = <<>>
    /\ history_count = 0
    /\ frame = NoFrame
    /\ batch = NoBatch

\* --------------------------------------------------- leaving the session
\* select_history is left: its locals (terminal guard, event channel) drop
Leave(to, out) ==
    /\ pc' = to
    /\ output' = out
    /\ terminal' = drop_terminal(terminal)
    /\ pending' = 0

\* ------------------------------------------------ the store and the tasks
\* the store finishes the call in flight, with an answer or with an error
StoreReply ==
    /\ inflight # <<>>
    /\ Head(inflight).reply = "Pending"
    /\ \E r \in {"Ok", "Err"} :
        inflight' = <<[Head(inflight) EXCEPT !.reply = r]>> \o Tail(inflight)
    /\ UNCHANGED <<pc, db, search_mode, overflow_checks, input, results, selected,
                   output, terminal, pending, event, history_count>>
    /\ UNCHANGED <<frame, batch>>

\* the input-reading task or the tick task sends one more event
EventSent ==
    /\ pc \in Running
    /\ pending < MaxPending
    /\ pending' = pending + 1
    /\ UNCHANGED <<pc, db, search_mode, overflow_checks, input, results, selected,
                   output, terminal, event, inflight, history_count>>
    /\ UNCHANGED <<frame, batch>>

\* -------------------------------------------------------- select_history
\* into_raw_mode()? fails with nothing acquired, or Terminal::new(..)? fails and
\* the guard it was given drops: the error returns before any State exists
StartFail ==
    /\ pc = "start"
    /\ pc' = "error"
    /\ terminal' \in {terminal, drop_terminal("held")}
    /\ UNCHANGED <<db, search_mode, overflow_checks, input, results, selected, output,
                   pending, event, inflight, history_count>>
    /\ UNCHANGED <<frame, batch>>

\* terminal acquired, State built from the query tokens, first query issued
Start ==
    /\ pc = "start"
    /\ \E query \in QueryArgs :
        /\ input' = join(query, " ")
        /\ inflight' = Append(inflight, query_results_call(input', search_mode))
    /\ terminal' = "held"
    /\ results' = <<>>
    /\ selected' = None
    /\ pc' = "init_query"
    /\ UNCHANGED <<db, search_mode, overflow_checks, output, pending, event, history_count>>
    /\ UNCHANGED <<frame, batch>>

\* query_results(..).await? resumes with the answer
InitQueryDone ==
    /\ pc = "init_query"
    /\ inflight # <<>> /\ Head(inflight).reply = "Ok"
    /\ results' = StoreAnswer(db, Head(inflight))
    /\ selected' = query_results_select(results')
    /\ inflight' = Tail(inflight)
    /\ pc' = "loop"
    /\ UNCHANGED <<db, search_mode, overflow_checks, input, output, terminal, pending,
                   event, history_count>>
    /\ UNCHANGED <<frame, batch>>

\* query_results(..).await? resumes with the store's error
InitQueryErr ==
    /\ pc = "init_query"
    /\ inflight # <<>> /\ Head(inflight).reply = "Err"
    /\ inflight' = Tail(inflight)
    /\ Leave("error", None)
    /\ UNCHANGED <<db, search_mode, overflow_checks, input, results, selected, event,
                   history_count>>
    /\ UNCHANGED <<frame, batch>>

\* top of the loop: db.history_count() is called
LoopCount ==
    /\ pc = "loop"
    /\ inflight' = Append(inflight, CountCall)
    /\ pc' = "count"
    /\ UNCHANGED <<db, search_mode, overflow_checks, input, results, selected, output,
                   terminal, pending, event, history_count>>
    /\ UNCHANGED <<frame, batch>>

CountDone ==
    /\ pc = "count"
    /\ inflight # <<>> /\ Head(inflight).reply = "Ok"
    /\ history_count' = DbHistoryCount(db)
    /\ inflight' = Tail(inflight)
    /\ pc' = "next"
    /\ UNCHANGED <<db, search_mode, overflow_checks, input, results, selected, output,
                   terminal, pending, event>>
    /\ UNCHANGED <<frame, batch>>

CountErr ==
    /\ pc = "count"
    /\ inflight # <<>> /\ Head(inflight).reply = "Err"
    /\ inflight' = Tail(inflight)
    /\ Leave("error", None)
    /\ UNCHANGED <<db, search_mode, overflow_checks, input, results, selected, event,
                   history_count>>
    /\ UNCHANGED <<frame, batch>>

\* events.next()? fails: the channel has no sender left
RecvError ==
    /\ pc = "next"
    /\ Leave("error", None)
    /\ UNCHANGED <<db, search_mode, overflow_checks, input, results, selected, event,
                   inflight, history_count>>
    /\ UNCHANGED <<frame, batch>>

\* events.next() returns ev: the guard of every handler below
Recv(ev, arm) ==
    /\ pc = "next"
    /\ pending > 0
    /\ IF ev.e = "Input" THEN KeyArm(ev.key) = arm ELSE arm = "tick"
    /\ event' = ev

\* the handler goes on to the frame
ToDraw ==
    /\ pc' = "draw"
    /\ pending' = pending - 1
    /\ UNCHANGED <<output, terminal>>

\* an event that is no input: straight to the frame
OnTick ==
    /\ Recv(Tick, "tick")
    /\ ToDraw
    /\ UNCHANGED <<db, search_mode, overflow_checks, input, results, selected, inflight,
                   history_count>>
    /\ UNCHANGED <<frame, batch>>

\* ----------------------------------------------------------- key_handler
KeyCancel ==
    /\ \E ev \in Events : Recv(ev, "cancel")
    /\ Leave("done", Some(cancel_output))
    /\ UNCHANGED <<db, search_mode, overflow_checks, input, results, selected, inflight,
                   history_count>>
    /\ UNCHANGED <<frame, batch>>

KeyEnter ==
    /\ \E ev \in Events : Recv(ev, "enter")
    /\ Leave("done", Some(enter_output(input, results, selected)))
    /\ UNCHANGED <<db, search_mode, overflow_checks, input, results, selected, inflight,
                   history_count>>
    /\ UNCHANGED <<frame, batch>>

KeyAltDigit ==
    /\ \E ev \in Events :
        /\ Recv(ev, "alt_digit")
        /\ LET out == alt_digit_output(ev.key.c, input, results, selected)
           IN IF out = None THEN ToDraw ELSE Leave("done", out)
    /\ UNCHANGED <<db, search_mode, overflow_checks, input, results, selected, inflight,
                   history_count>>
    /\ UNCHANGED <<frame, batch>>

\* an edit arm that queries for the input as it was before the edit
Requery_stale(inp) ==
    /\ input' = inp
    /\ inflight' = Append(inflight, query_results_call(input, search_mode))
    /\ pc' = await_query_results
    /\ pending' = pending - 1
    /\ UNCHANGED <<db, search_mode, overflow_checks, results, selected, output, terminal,
                   history_count>>

\* an edit arm after its edit: query_results is called and awaited
Requery(inp) ==
    /\ input' = inp
    /\ inflight' = Append(inflight, query_results_call(inp, search_mode))
    /\ pc' = await_query_results
    /\ pending' = pending - 1
    /\ UNCHANGED <<db, search_mode, overflow_checks, results, selected, output, terminal,
                   history_count>>

KeyChar ==
    /\ Len(input) < MaxInput
    /\ \E ev \in Events :
        /\ Recv(ev, "char")
        /\ Requery(Append(input, ev.key.c))
    /\ UNCHANGED <<frame, batch>>

KeyBackspace ==
    /\ \E ev \in Events : Recv(ev, "backspace")
    /\ Requery(pop(input))
    /\ UNCHANGED <<frame, batch>>

KeyAltBackspace ==
    /\ \E ev \in Events : Recv(ev, "alt_backspace")
    /\ LET inp == alt_backspace_input(input)
       IN IF inp = None
          THEN /\ ToDraw
               /\ UNCHANGED <<db, search_mode, overflow_checks, input, results, selected,
                              inflight, history_count>>
          ELSE Requery(unwrap(inp))
    /\ UNCHANGED <<frame, batch>>

KeyCtrlU ==
    /\ \E ev \in Events : Recv(ev, "ctrl_u")
    /\ Requery(EmptyText)
    /\ UNCHANGED <<frame, batch>>

\* a Down arm that queries the store again after moving
KeyDown_requery ==
    /\ \E ev \in Events : Recv(ev, "down")
    /\ inflight' = Append(inflight, query_results_call(input, search_mode))
    /\ selected' = Some(down_index(selected))
    /\ pc' = await_query_results
    /\ pending' = pending - 1
    /\ UNCHANGED <<db, search_mode, overflow_checks, input, results, output, terminal,
                   history_count>>
    /\ UNCHANGED <<frame, batch>>

KeyDown ==
    /\ \E ev \in Events : Recv(ev, "down")
    /\ selected' = Some(down_index(selected))
    /\ ToDraw
    /\ UNCHANGED <<db, search_mode, overflow_checks, input, results, inflight,
                   history_count>>
    /\ UNCHANGED <<frame, batch>>

KeyUp ==
    /\ \E ev \in Events : Recv(ev, "up")
    /\ LET i == up_index(selected, Len(results))
       IN IF i = None
          THEN /\ Leave("panicked", None)
               /\ UNCHANGED selected
          ELSE /\ unwrap(i) <= MaxSelected
               /\ selected' = i
               /\ ToDraw
    /\ UNCHANGED <<db, search_mode, overflow_checks, input, results, inflight,
                   history_count>>
    /\ UNCHANGED <<frame, batch>>

KeyOther ==
    /\ \E ev \in Events : Recv(ev, "other")
    /\ ToDraw
    /\ UNCHANGED <<db, search_mode, overflow_checks, input, results, selected, inflight,
                   history_count>>
    /\ UNCHANGED <<frame, batch>>

\* query_results(..).await.unwrap() resumes with the answer
RequeryDone ==
    /\ pc = "requery"
    /\ inflight # <<>> /\ Head(inflight).reply = "Ok"
    /\ results' = StoreAnswer(db, Head(inflight))
    /\ selected' = query_results_select(results')
    /\ inflight' = Tail(inflight)
    /\ pc' = "draw"
    /\ UNCHANGED <<db, search_mode, overflow_checks, input, output, terminal, pending,
                   event, history_count>>
    /\ UNCHANGED <<frame, batch>>

\* query_results(..).await.unwrap() resumes with the store's error: unwrap panics
RequeryPanic ==
    /\ pc = "requery"
    /\ inflight # <<>> /\ Head(inflight).reply = "Err"
    /\ inflight' = Tail(inflight)
    /\ Leave("panicked", None)
    /\ UNCHANGED <<db, search_mode, overflow_checks, input, results, selected, event,
                   history_count>>
    /\ UNCHANGED <<frame, batch>>

\* ------------------------------------------------------------- the frame
Draw ==
    /\ pc = "draw"
    /\ pc' = "loop"
    /\ event' = NoEvent
    /\ UNCHANGED <<db, search_mode, overflow_checks, input, results, selected, output,
                   terminal, pending, inflight, history_count>>
    /\ UNCHANGED <<frame, batch>>

\* terminal.draw(..)? fails
DrawErr ==
    /\ pc = "draw"
    /\ Leave("error", None)
    /\ UNCHANGED <<db, search_mode, overflow_checks, input, results, selected, event,
                   inflight, history_count>>
    /\ UNCHANGED <<frame, batch>>

Next ==
    \/ StoreReply
    \/ EventSent
    \/ StartFail
    \/ Start
    \/ InitQueryDone
    \/ InitQueryErr
    \/ LoopCount
    \/ CountDone
    \/ CountErr
    \/ RecvError
    \/ OnTick
    \/ KeyCancel
    \/ KeyEnter
    \/ KeyAltDigit
    \/ KeyChar
    \/ KeyBackspace
    \/ KeyAltBackspace
    \/ KeyCtrlU
    \/ KeyDown
    \/ KeyUp
    \/ KeyOther
    \/ RequeryDone
    \/ RequeryPanic
    \/ Draw
    \/ DrawErr

Spec == Init /\ [][Next]_vars

\* ------------------------------------------------- the layout of a frame
MaxHeight == 20
CompactBelow == 14
Styles == {"Auto", "Compact", "Full"}
Widths == {80, 132}

\* what terminal.size() can return: a Rect, or None for its error
Sizes == {None} \cup {Some([width |-> w, height |-> h]) : w \in Widths, h \in 0..MaxHeight}

\* a choice of layout that takes a viewport of exactly the threshold for small
compact_inclusive(style, size) ==
    IF style = "Auto" THEN (IF size = None THEN TRUE ELSE unwrap(size).height <= CompactBelow)
    ELSE style = "Compact"

\* whether the frame is drawn by draw_compact
compact(style, size) ==
    IF style = "Auto" THEN (IF size = None THEN TRUE ELSE unwrap(size).height < CompactBelow)
    ELSE IF style = "Compact" THEN TRUE
    ELSE FALSE

\* the session's variables while another specification runs
SessionIdle ==
    /\ pc = "start"
    /\ db = <<>>
    /\ search_mode = "Prefix"
    /\ overflow_checks = FALSE
    /\ input = EmptyText
    /\ results = <<>>
    /\ selected = None
    /\ output = None
    /\ terminal = "none"
    /\ pending = 0
    /\ event = NoEvent
    /\ inflight = <<>>
    /\ history_count = 0

FrameInit ==
    /\ SessionIdle
    /\ batch = NoBatch
    /\ frame \in {[style |-> st, size |-> None, layout |-> ""] : st \in Styles}

\* one frame of the loop: the viewport is read and one of the layouts drawn
DrawFrame ==
    /\ \E size \in Sizes :
        frame' = [frame EXCEPT !.size = size,
                               !.layout = IF compact(frame.style, size)
                                          THEN "Compact" ELSE "Full"]
    /\ UNCHANGED <<session, batch>>

FrameNext == DrawFrame

FrameSpec == FrameInit /\ [][FrameNext]_vars

\* ------------------------------------------------------ the batch filter
MaxFound == 2
Exits == {0, 1}
Dirs == {"/a", "/b"}
Timestamps == {0, 1, 2}
CurrentDir == "/b"

\* a time expression is a digit naming an instant; any other text fails to parse
TimeExprs == {"1", "x"}
parse_date_string(expr) == to_digit(expr)

BatchRecords ==
    {[command |-> <<"a">>, cwd |-> d, exit |-> e, timestamp |-> t] :
        d \in Dirs, e \in Exits, t \in Timestamps}

BatchArgs ==
    [exit : {None, Some(0)},
     exclude_exit : {None, Some(0)},
     cwd : {None, Some("."), Some("/a")},
     exclude_cwd : {None, Some("/a")},
     before : {None} \cup {Some(x) : x \in TimeExprs},
     after : {None} \cup {Some(x) : x \in TimeExprs}]

\* the directory filter of run: "." is the process's working directory
resolve_dir(cwd) ==
    IF cwd = None THEN None
    ELSE IF unwrap(cwd) = "." THEN Some(CurrentDir)
    ELSE cwd

\* the filter closure dropping the records stamped exactly at the bound
filter_keep_strict(h, a) ==
    IF a.exit # None /\ h.exit # unwrap(a.exit) THEN FALSE
    ELSE IF a.exclude_exit # None /\ h.exit = unwrap(a.exclude_exit) THEN FALSE
    ELSE IF a.exclude_cwd # None /\ h.cwd = unwrap(a.exclude_cwd) THEN FALSE
    ELSE IF resolve_dir(a.cwd) # None /\ h.cwd # unwrap(resolve_dir(a.cwd)) THEN FALSE
    ELSE IF a.before # None
            /\ (\/ parse_date_string(unwrap(a.before)) = None
                \/ h.timestamp >= unwrap(parse_date_string(unwrap(a.before)))) THEN FALSE
    ELSE IF a.after # None
            /\ (\/ parse_date_string(unwrap(a.after)) = None
                \/ h.timestamp <= unwrap(parse_date_string(unwrap(a.after)))) THEN FALSE
    ELSE TRUE

\* the filter closure taking a time expression that fails to parse as absent
filter_keep_lenient(h, a) ==
    IF a.exit # None /\ h.exit # unwrap(a.exit) THEN FALSE
    ELSE IF a.exclude_exit # None /\ h.exit = unwrap(a.exclude_exit) THEN FALSE
    ELSE IF a.exclude_cwd # None /\ h.cwd = unwrap(a.exclude_cwd) THEN FALSE
    ELSE IF resolve_dir(a.cwd) # None /\ h.cwd # unwrap(resolve_dir(a.cwd)) THEN FALSE
    ELSE IF a.before # None
            /\ parse_date_string(unwrap(a.before)) # None
            /\ h.timestamp > unwrap(parse_date_string(unwrap(a.before))) THEN FALSE
    ELSE IF a.after # None
            /\ parse_date_string(unwrap(a.after)) # None
            /\ h.timestamp < unwrap(parse_date_string(unwrap(a.after))) THEN FALSE
    ELSE TRUE

\* the filter closure of run: each `return false` in turn, then true
filter_keep(h, a) ==
    IF a.exit # None /\ h.exit # unwrap(a.exit) THEN FALSE
    ELSE IF a.exclude_exit # None /\ h.exit = unwrap(a.exclude_exit) THEN FALSE
    ELSE IF a.exclude_cwd # None /\ h.cwd = unwrap(a.exclude_cwd) THEN FALSE
    ELSE IF resolve_dir(a.cwd) # None /\ h.cwd # unwrap(resolve_dir(a.cwd)) THEN FALSE
    ELSE IF a.before # None
            /\ (\/ parse_date_string(unwrap(a.before)) = None
                \/ h.timestamp > unwrap(parse_date_string(unwrap(a.before)))) THEN FALSE
    ELSE IF a.after # None
            /\ (\/ parse_date_string(unwrap(a.after)) = None
                \/ h.timestamp < unwrap(parse_date_string(unwrap(a.after)))) THEN FALSE
    ELSE TRUE

\* run, not interactive: the arguments and what the unscoped search will find
BatchInit ==
    /\ SessionIdle
    /\ frame = NoFrame
    /\ batch \in {[status |-> "start", args |-> a, found |-> f, out |-> <<>>] :
                    a \in BatchArgs, f \in SeqsUpTo(BatchRecords, MaxFound)}

\* db.search(None, ..).await? answers; the records are filtered and printed
BatchRun ==
    /\ batch.status = "start"
    /\ batch' = [batch EXCEPT
            !.status = "done",
            !.out = SelectSeq(batch.found, LAMBDA h : filter_keep(h, batch.args))]
    /\ UNCHANGED <<session, frame>>

\* db.search(None, ..).await? fails: run returns the error
BatchSearchErr ==
    /\ batch.status = "start"
    /\ batch' = [batch EXCEPT !.status = "error"]
    /\ UNCHANGED <<session, frame>>

BatchNext ==
    \/ BatchRun
    \/ BatchSearchErr

BatchSpec == BatchInit /\ [][BatchNext]_vars

\* ---------------------------------------------------------- the jump hint
MaxRows == 12

RECURSIVE to_string(_)
\* usize formatted by {}: its decimal digits
to_string(n) ==
    IF n < 10 THEN <<DigitChars[n + 1]>>
    ELSE to_string(n \div 10) \o <<DigitChars[(n % 10) + 1]>>

BlankHint == <<" ", " ", " ">>

\* usize::checked_sub
checked_sub(a, b) == IF a >= b THEN Some(a - b) ELSE None

\* a hint counting the distance to the selected row in both directions
selected_index_either_way(i, sel) ==
    IF sel = None THEN BlankHint
    ELSE LET diff == IF i >= unwrap(sel) THEN i - unwrap(sel) ELSE unwrap(sel) - i
         IN IF 0 < diff /\ diff < 10 THEN <<" ">> \o to_string(diff) \o <<" ">>
            ELSE BlankHint

\* the first span of the row at index i in render_results
selected_index(i, sel) ==
    IF sel = None THEN BlankHint
    ELSE LET diff == checked_sub(i, unwrap(sel))
         IN IF diff = None THEN BlankHint
            ELSE IF 0 < unwrap(diff) /\ unwrap(diff) < 10
                 THEN <<" ">> \o to_string(unwrap(diff)) \o <<" ">>
            ELSE BlankHint

\* n records with commands that all differ, most recent first
Rows(n) == [i \in 1..n |-> HistoryRecord([j \in 1..i |-> "a"])]

\* the session as it waits for a key over a listed store, any row selected
HintInit ==
    /\ pc = "next"
    /\ db \in {Rows(n) : n \in 0..MaxRows}
    /\ search_mode \in SearchModes
    /\ overflow_checks \in BOOLEAN
    /\ input = EmptyText
    /\ results = DbList(db, Some(QueryLimit), TRUE)
    /\ selected \in IF results = <<>> THEN {None}
                    ELSE {Some(k) : k \in 0..(Len(results) - 1)}
    /\ output = None
    /\ terminal = "held"
    /\ pending = 0
    /\ event = NoEvent
    /\ inflight = <<>>
    /\ history_count = DbHistoryCount(db)
    /\ frame = NoFrame
    /\ batch = NoBatch

HintNext ==
    \/ EventSent
    \/ KeyAltDigit

HintSpec == HintInit /\ [][HintNext]_vars

\* ---------------------------------------------------------------- claims
\* the step in which key_handler takes a key of the given arm
Handles(arm) ==
    /\ pc = "next"
    /\ event'.e = "Input"
    /\ KeyArm(event'.key) = arm

\* the key of the given arm was the last one handled
Handled(arm) == event.e = "Input" /\ KeyArm(event.key) = arm

\* the digit of an Alt-digit key
DigitOf(k) == CHOOSE d \in 1..9 : DigitChars[d + 1] = k.c

\* the step in which the caller resumes from the store call in flight
Resumes(reply) ==
    /\ inflight # <<>>
    /\ Head(inflight).reply = reply
    /\ inflight' # inflight

\* C1: in every reachable state the selection is None or an index strictly
\* smaller than the number of results.
SelectionInBounds == selected # None => unwrap(selected) < Len(results)

\* C2: every successful requery (the initial one and each one an editing key
\* triggers) replaces the results by the store's answer and leaves the
\* selection Some(0) for a non-empty answer and None for an empty one.
RequeryResetsSelection ==
    [][(pc \in {"init_query", "requery"} /\ Resumes("Ok")) =>
        /\ results' = StoreAnswer(db, Head(inflight))
        /\ (Len(results') > 0 => selected' = Some(0))
        /\ (Len(results') = 0 => selected' = None)]_vars

\* C2 witness: a frame is due after an editing key's requery that answered
\* with several rows, the first of which is selected.
RequeryResetsSelectionWitness ==
    /\ pc = "draw"
    /\ Handled("backspace")
    /\ Len(results) > 1
    /\ selected = Some(0)

\* C3: an Up action on Some(k) yields Some(k+1) for k < len-1, is a no-op at
\* k = len-1, and completes without failure in every reachable state.
UpMovesTowardLast ==
    [][(Handles("up") /\ selected # None) =>
        LET k == unwrap(selected)
        IN /\ pc' # "panicked"
           /\ (k < Len(results) - 1 => selected' = Some(k + 1))
           /\ (k = Len(results) - 1 => selected' = selected)]_vars

\* C4: a Down action on Some(k) yields Some(k-1) for k > 0 and is a no-op at
\* k = 0; the selection never goes below 0.
DownMovesTowardZero ==
    [][(Handles("down") /\ selected # None) =>
        LET k == unwrap(selected)
        IN /\ pc' = "draw"
           /\ (k > 0 => selected' = Some(k - 1))
           /\ (k = 0 => selected' = selected)
           /\ unwrap(selected') >= 0]_vars

\* C4 witness: Down was handled and left the first row of several selected.
DownMovesTowardZeroWitness ==
    /\ pc = "draw"
    /\ Handled("down")
    /\ Len(results) > 1
    /\ selected = Some(0)

\* C5: Alt+d with selection Some(k) ends the session, emitting the command of
\* results[k+d] when k+d is within the results and the input text otherwise.
AltDigitEmits ==
    [][(Handles("alt_digit") /\ selected # None) =>
        LET i == unwrap(selected) + DigitOf(event'.key)
        IN /\ pc' = "done"
           /\ output' = Some(IF i < Len(results) THEN results[i + 1].command ELSE input)
           /\ input' = input]_vars

\* C5 witness: the session ended on an Alt-digit that reached a row whose
\* command is not the one of the selected row.
AltDigitEmitsWitness ==
    /\ pc = "done"
    /\ Handled("alt_digit")
    /\ selected # None
    /\ unwrap(selected) + DigitOf(event.key) < Len(results)
    /\ output = Some(results[unwrap(selected) + DigitOf(event.key) + 1].command)
    /\ output # Some(results[unwrap(selected) + 1].command)

\* C6: Alt+digit is never a no-op: in every reachable state, with or without
\* a selection, it emits an output and ends the session.
AltDigitNeverNoOp ==
    [][Handles("alt_digit") => (pc' = "done" /\ output' # None)]_vars

\* C7: Enter ends the session and emits the command of the selected row, or
\* the input text when no row is selected or the selected index has no row.
EnterEmits ==
    [][Handles("enter") =>
        /\ pc' = "done"
        /\ output' = Some(IF selected # None /\ unwrap(selected) < Len(results)
                          THEN results[unwrap(selected) + 1].command
                          ELSE input)]_vars

\* C7 witness: the session ended on Enter with the second row selected, whose
\* command differs from the first row's.
EnterEmitsWitness ==
    /\ pc = "done"
    /\ Handled("enter")
    /\ selected = Some(1)
    /\ Len(results) > 1
    /\ results[2].command # results[1].command
    /\ output = Some(results[2].command)

\* C8: a store failure during any requery or during the count ends the
\* session with an error result and no output, and nothing happens after.
StoreFailurePropagates ==
    [][/\ Resumes("Err") => (pc' = "error" /\ output' = None)
       /\ pc \notin Terminated]_vars

\* C9: the terminal is acquired once, at session start, is held while the
\* session runs and is no longer held in any terminated state.
TerminalReleasedOnExit ==
    /\ [](pc \in Terminated => terminal # "held")
    /\ [](pc \in Running => terminal = "held")
    /\ [][terminal' = "held" => (terminal = "held" \/ pc = "start")]_vars

\* C9 witness: the session ended with an error after an event was taken and
\* the terminal is released.
TerminalReleasedOnExitWitness ==
    /\ pc = "error"
    /\ event # NoEvent
    /\ terminal = "released"

\* C10: at most one store call is in flight at any time, and none is in
\* flight when a frame is drawn or an event is taken from the channel.
StoreCallsSerialized ==
    /\ [](Len(inflight) <= 1)
    /\ [][((pc = "draw" /\ pc' # "draw") \/ (pc = "next" /\ pc' # "next")) =>
            inflight = <<>>]_vars

\* C10 witness: a keystroke's search is in flight while the input-reading
\* task has already sent further events.
StoreCallsSerializedWitness ==
    /\ pc = "requery"
    /\ Len(inflight) = 1
    /\ Head(inflight).op = "search"
    /\ pending = MaxPending

EditArms == {"char", "backspace", "alt_backspace", "ctrl_u"}
NavArms == {"down", "up"}
TerminalArms == {"cancel", "enter", "alt_digit"}
Whitespace == {" ", "\t"}

RECURSIVE WordsAcc(_, _, _)
WordsAcc(s, cur, acc) ==
    IF s = <<>> THEN (IF cur = <<>> THEN acc ELSE Append(acc, cur))
    ELSE IF Head(s) \in Whitespace
         THEN WordsAcc(Tail(s), <<>>, IF cur = <<>> THEN acc ELSE Append(acc, cur))
    ELSE WordsAcc(Tail(s), Append(cur, Head(s)), acc)

\* the whitespace-delimited words of a text
Words(s) == WordsAcc(s, <<>>, <<>>)

\* C11: every editing key issues exactly one requery, made with the input as
\* it is after the edit: a list call for the 200 most recent unique records
\* when that input is empty, else a search call limited to 200 with the
\* active search mode and the input as query text.
EditRequeriesOnce ==
    [][/\ \A arm \in EditArms : Handles(arm) =>
            /\ pc' = "requery"
            /\ inflight = <<>>
            /\ (input' = <<>> =>
                  inflight' = <<[op |-> "list", limit |-> <<200>>, unique |-> TRUE,
                                 mode |-> "", query |-> <<>>, reply |-> "Pending"]>>)
            /\ (input' # <<>> =>
                  inflight' = <<[op |-> "search", limit |-> <<200>>, unique |-> FALSE,
                                 mode |-> search_mode, query |-> input',
                                 reply |-> "Pending"]>>)
       /\ Handles("char") => input' = Append(input, event'.key.c)
       /\ Handles("backspace") =>
            input' = IF input = <<>> THEN <<>> ELSE SubSeq(input, 1, Len(input) - 1)
       /\ Handles("ctrl_u") => input' = <<>>
       /\ (pc = "requery" /\ pc' # "requery") => inflight' = <<>>]_vars

\* C11 witness: Backspace left the input empty and the list call for it is
\* in flight.
EditRequeriesOnceWitness ==
    /\ pc = "requery"
    /\ Handled("backspace")
    /\ input = <<>>
    /\ Len(inflight) = 1
    /\ Head(inflight).op = "list"

\* C12: in every reachable state the input buffer holds no control character.
InputHasNoControlChars == \A i \in 1..Len(input) : input[i] \notin ControlChars

\* C13: Alt+Backspace leaves the input with its last whitespace-delimited
\* word removed, empty when at most one word was there, and requeries.
AltBackspaceRemovesLastWord ==
    [][Handles("alt_backspace") =>
        LET w == Words(input)
        IN /\ pc' = "requery"
           /\ Words(input') = (IF w = <<>> THEN <<>> ELSE SubSeq(w, 1, Len(w) - 1))
           /\ (Len(w) <= 1 => input' = <<>>)]_vars

\* C14: a cancel key (Esc, Ctrl-C, Ctrl-D, Ctrl-G) ends the session emitting
\* the empty string, whatever the state, changes nothing of the session
\* state and makes no store call.
CancelEmitsEmpty ==
    [][Handles("cancel") =>
        /\ pc' = "done"
        /\ output' = Some(<<>>)
        /\ event'.key \in {Key("Esc", ""), Key("Ctrl", "c"), Key("Ctrl", "d"), Key("Ctrl", "g")}
        /\ UNCHANGED <<input, results, selected, inflight, db>>]_vars

\* C14 witness: the session was cancelled with text typed and a row other
\* than the first selected.
CancelEmitsEmptyWitness ==
    /\ pc = "done"
    /\ Handled("cancel")
    /\ input # <<>>
    /\ selected = Some(1)
    /\ Len(results) > 1
    /\ output = Some(<<>>)

\* C18: the session ends with an output only on a terminal key; a
\* navigation, editing or unrecognised key and a non-input event never end
\* it and are followed by a frame; a terminal key ends it, and nothing
\* happens after the end.
LoopEndsOnTerminalKey ==
    [][/\ pc' = "done" =>
            (pc = "next" /\ output' # None /\ \E arm \in TerminalArms : Handles(arm))
       /\ (\E arm \in NavArms \cup {"other"} : Handles(arm)) => pc' = "draw"
       /\ (pc = "next" /\ event'.e = "Tick") => pc' = "draw"
       /\ (\E arm \in EditArms : Handles(arm)) => pc' = "requery"
       /\ (pc = "requery" /\ Resumes("Ok")) => pc' = "draw"
       /\ (\E arm \in TerminalArms : Handles(arm)) => pc' = "done"
       /\ pc \notin Terminated]_vars

\* C19: navigation keys and unrecognised keys leave the input and the
\* results unchanged and issue no store query; unrecognised keys leave the
\* selection unchanged too.
NavigationLeavesQuery ==
    [][/\ (\E arm \in NavArms \cup {"other"} : Handles(arm)) =>
            /\ input' = input
            /\ results' = results
            /\ inflight' = <<>>
       /\ Handles("other") => selected' = selected]_vars

\* C19 witness: a navigation key moved the selection over results fetched
\* for a typed input.
NavigationLeavesQueryWitness ==
    /\ pc = "draw"
    /\ Handled("up")
    /\ input # <<>>
    /\ selected = Some(1)
    /\ Len(results) > 1

\* C20: whenever the loop waits for the next event, the results are the
\* store's answer to the query for the current input.
ResultsMatchInput ==
    pc = "next" =>
        results = IF input = <<>> THEN DbList(db, Some(200), TRUE)
                  ELSE DbSearch(db, Some(200), search_mode, input)

\* C20 witness: the loop waits for an event after an edit, with rows found
\* for a non-empty input that does not match every record.
ResultsMatchInputWitness ==
    /\ pc = "next"
    /\ Len(input) > 1
    /\ results # <<>>
    /\ Len(results) < Len(db)

\* C17: under style Auto the Compact layout is drawn when the viewport is
\* lower than 14 rows and the Full layout otherwise; style Compact always
\* draws Compact and style Full always draws Full.
LayoutFollowsStyle ==
    frame.layout # "" =>
        /\ frame.layout \in {"Compact", "Full"}
        /\ (frame.style = "Auto" /\ frame.size # None) =>
              (frame.layout = "Compact" <=> frame.size[1].height < 14)
        /\ frame.style = "Compact" => frame.layout = "Compact"
        /\ frame.style = "Full" => frame.layout = "Full"

\* C17 witness: under Auto a viewport of exactly 14 rows was drawn Full.
LayoutFollowsStyleWitness ==
    /\ frame.style = "Auto"
    /\ frame.size # None
    /\ frame.size[1].height = 14
    /\ frame.layout = "Full"

\* the instant a time expression names, for the expressions that parse
Parses(expr) == \E t \in Timestamps : DigitChars[t + 1] = expr
TimeOf(expr) == CHOOSE t \in Timestamps : DigitChars[t + 1] = expr

\* the conjunction of the predicates supplied in the arguments
Satisfies(h, a) ==
    /\ a.exit # None => h.exit = a.exit[1]
    /\ a.exclude_exit # None => h.exit # a.exclude_exit[1]
    /\ a.cwd # None => h.cwd = (IF a.cwd[1] = "." THEN CurrentDir ELSE a.cwd[1])
    /\ a.exclude_cwd # None => h.cwd # a.exclude_cwd[1]
    /\ a.before # None => ~(h.timestamp > TimeOf(a.before[1]))
    /\ a.after # None => ~(h.timestamp < TimeOf(a.after[1]))

\* C15: the batch filter outputs exactly the found records that satisfy all
\* the supplied predicates, in their original relative order, none added,
\* duplicated or reordered; an absent predicate filters nothing.
BatchFilterIsConjunction ==
    (/\ batch.status = "done"
     /\ batch.args.before # None => Parses(batch.args.before[1])
     /\ batch.args.after # None => Parses(batch.args.after[1])) =>
        LET kept == {i \in 1..Len(batch.found) : Satisfies(batch.found[i], batch.args)}
            nth(n) == CHOOSE i \in kept : Cardinality({j \in kept : j < i}) = n - 1
        IN /\ Len(batch.out) = Cardinality(kept)
           /\ \A n \in 1..Len(batch.out) : batch.out[n] = batch.found[nth(n)]

\* C15 witness: with an exit code and a before bound supplied, the first of
\* two found records was dropped and the second, stamped at the bound, kept.
BatchFilterIsConjunctionWitness ==
    /\ batch.status = "done"
    /\ batch.args.exit # None
    /\ batch.args.before = Some("1")
    /\ Len(batch.found) = 2
    /\ batch.found[2].timestamp = 1
    /\ batch.out = <<batch.found[2]>>

\* C16: when a before or after expression is supplied and fails to parse, the
\* run completes normally and its output is empty.
BatchParseFailureExcludesAll ==
    (/\ batch.status = "done"
     /\ \/ (batch.args.before # None /\ ~Parses(batch.args.before[1]))
        \/ (batch.args.after # None /\ ~Parses(batch.args.after[1]))) =>
        batch.out = <<>>

\* C16 witness: records were found, the only predicate is a before bound that
\* does not parse, and the run ended with an empty output.
BatchParseFailureExcludesAllWitness ==
    /\ batch.status = "done"
    /\ batch.args = [exit |-> None, exclude_exit |-> None, cwd |-> None,
                     exclude_cwd |-> None, before |-> Some("x"), after |-> None]
    /\ Len(batch.found) > 0
    /\ batch.out = <<>>

\* C21: the row at index i shows the hint N exactly when a row s is selected
\* and 0 < i - s = N < 10, and is blank otherwise; and Alt+N emits the
\* command of every row that shows the hint N.
JumpHintAgreesWithJump ==
    /\ [](\A i \in 0..(Len(results) - 1) :
            LET hinted == selected # None /\ 0 < i - selected[1] /\ i - selected[1] < 10
            IN /\ hinted =>
                    selected_index(i, selected) = <<" ", DigitChars[i - selected[1] + 1], " ">>
               /\ ~hinted => selected_index(i, selected) = <<" ", " ", " ">>)
    /\ [][Handles("alt_digit") =>
            \A i \in 0..(Len(results) - 1) :
                selected_index(i, selected) = <<" ", event'.key.c, " ">> =>
                    (pc' = "done" /\ output' = Some(results[i + 1].command))]_vars

\* C21 witness: with the second of twelve rows selected, Alt+9 emitted the
\* row that showed the hint 9; the row after it and the first row were blank.
JumpHintAgreesWithJumpWitness ==
    /\ pc = "done"
    /\ Handled("alt_digit")
    /\ event.key.c = "9"
    /\ selected = Some(1)
    /\ Len(results) = 12
    /\ selected_index(10, selected) = <<" ", "9", " ">>
    /\ selected_index(11, selected) = <<" ", " ", " ">>
    /\ selected_index(0, selected) = <<" ", " ", " ">>
    /\ output = Some(results[11].command)

====
